---- MODULE Spec2Model ----
(***************************************************************************)
(* Sudoku board of sdk_board.py: tiles with a value and a candidate set,   *)
(* the groups (blocks, rows, columns), the two propagation tactics, the    *)
(* propagate() fixpoint loop and the recursive guess-and-check solve().    *)
(*                                                                         *)
(* sdk_board.py imports its configuration (ROOT, NROWS, NCOLS, CHOICES,    *)
(* UNKNOWN) from sdk_config; the values are fixed for a run.  The model    *)
(* instantiates the smallest board with real blocks, ROOT = 2 (4 x 4).     *)
(* Symbols are opaque tokens: CHOICES is 1..NROWS and UNKNOWN is 0.        *)
(***************************************************************************)
EXTENDS Integers, Sequences, FiniteSets, TLC

ROOT == 2
NROWS == ROOT * ROOT
NCOLS == ROOT * ROOT
CHOICES == 1..NROWS
UNKNOWN == 0

Rows == 0..(NROWS - 1)
Cols == 0..(NCOLS - 1)
Pos == Rows \X Cols

(***************************************************************************)
(* Tile                                                                    *)
(***************************************************************************)

\* Tile.set_value: a symbol of CHOICES becomes the value and the only
\* candidate; anything else is stored as UNKNOWN with every candidate.
SetValue(value) ==
    IF value \in CHOICES
    THEN [value |-> value, candidates |-> {value}]
    ELSE [value |-> UNKNOWN, candidates |-> CHOICES]

\* Tile.remove_candidates: the tile after the call and the returned flag.
RemoveCandidates(tile, used_values) ==
    LET new_candidates == tile.candidates \ used_values IN
    IF new_candidates = tile.candidates
    THEN [tile |-> tile, changed |-> FALSE]
    ELSE IF Cardinality(new_candidates) = 1
         THEN [tile |-> SetValue(CHOOSE v \in new_candidates : TRUE),
               changed |-> TRUE]
         ELSE [tile |-> [tile EXCEPT !.candidates = new_candidates],
               changed |-> TRUE]

(***************************************************************************)
(* Board                                                                   *)
(***************************************************************************)

\* Board.__init__: the empty board.
EmptyTiles == [p \in Pos |-> SetValue(UNKNOWN)]

\* Board.create_groups: blocks first, then rows, then columns; each group
\* is the sequence of its tile positions in the order the code appends them.
groups ==
    [g \in 1..(3 * NROWS) |->
        IF g <= NROWS
        THEN [i \in 1..NROWS |->
                <<ROOT * ((g - 1) \div ROOT) + ((i - 1) \div ROOT),
                  ROOT * ((g - 1) % ROOT) + ((i - 1) % ROOT)>>]
        ELSE IF g <= 2 * NROWS
        THEN [i \in 1..NCOLS |-> <<g - NROWS - 1, i - 1>>]
        ELSE [i \in 1..NROWS |-> <<i - 1, g - 2 * NROWS - 1>>]]

GroupSet(g) == {groups[g][i] : i \in 1..NROWS}

\* Mutant of SetTiles: row and column index swapped.
SetTilesTransposed(tile_values) ==
    [p \in Pos |-> SetValue(tile_values[p[2] + 1][p[1] + 1])]

\* Board.set_tiles: every tile is set from the character at its position.
SetTiles(tile_values) ==
    [p \in Pos |-> SetValue(tile_values[p[1] + 1][p[2] + 1])]

\* Mutant of AsList: the rows are read down the columns.
AsListTransposed(t) ==
    [r \in 1..NROWS |-> [c \in 1..NCOLS |-> t[<<c - 1, r - 1>>].value]]

\* Board.as_list: one row of values per board row.
AsList(t) ==
    [r \in 1..NROWS |-> [c \in 1..NCOLS |-> t[<<r - 1, c - 1>>].value]]

\* Mutant of IsConsistent: UNKNOWN is not filtered out of the values.
IsConsistentCountingUnknown(t) ==
    \A g \in 1..(3 * NROWS) :
        \A i, j \in 1..NROWS :
            i < j => t[groups[g][i]].value /= t[groups[g][j]].value

\* Board.is_consistent: no group holds a known value twice.
IsConsistent(t) ==
    \A g \in 1..(3 * NROWS) :
        \A i, j \in 1..NROWS :
            (i < j /\ t[groups[g][i]].value /= UNKNOWN)
                => t[groups[g][i]].value /= t[groups[g][j]].value

\* Board.is_complete: no tile is UNKNOWN.
IsComplete(t) ==
    \A g \in 1..(3 * NROWS) :
        \A i \in 1..NROWS : t[groups[g][i]].value /= UNKNOWN

\* One group of Board.naked_single.  used_values is computed once, before
\* the tiles of the group are visited, and the tiles of a group are
\* distinct, so every UNKNOWN tile of the group sees the same used_values.
NakedGroup(st, g) ==
    LET t == st.tiles
        used_values == {t[p].value : p \in GroupSet(g)} \ {UNKNOWN}
        hit == {p \in GroupSet(g) :
                   /\ t[p].value = UNKNOWN
                   /\ RemoveCandidates(t[p], used_values).changed}
    IN [tiles |-> [p \in Pos |->
                      IF p \in hit
                      THEN RemoveCandidates(t[p], used_values).tile
                      ELSE t[p]],
        progress |-> st.progress \/ hit /= {}]

\* The groups from g on, in order.  (The board after group g is bound to a
\* quantified variable so that it is evaluated once, not at each use.)
RECURSIVE NakedFrom(_, _)
NakedFrom(st, g) ==
    IF g > 3 * NROWS
    THEN st
    ELSE CHOOSE r \in {NakedFrom(x, g + 1) :
                          x \in {y \in {NakedGroup(st, g)} : y = y}} : TRUE

\* Mutant of NakedSingle: progress is reported whether or not a candidate
\* was crossed off.
NakedSingleAlwaysProgress(t) ==
    [tiles |-> NakedFrom([tiles |-> t, progress |-> FALSE], 1).tiles,
     progress |-> TRUE]

\* Board.naked_single: the tiles after the pass and the returned flag.
NakedSingle(t) == NakedFrom([tiles |-> t, progress |-> FALSE], 1)

\* Mutant of HiddenValue: the value is assigned to the tile directly, its
\* candidates are left as they were.
HiddenValueAssign(st, g, value) ==
    LET possible_tiles == {p \in GroupSet(g) : value \in st.tiles[p].candidates}
    IN IF Cardinality(possible_tiles) = 1
       THEN [tiles |-> [p \in Pos |->
                          IF p \in possible_tiles
                          THEN [value |-> value,
                                candidates |-> st.tiles[p].candidates]
                          ELSE st.tiles[p]],
             progress |-> TRUE]
       ELSE st

\* Mutant of HiddenValue: the value is set on the first tile of the group
\* instead of the one tile that admits it.
HiddenValueFirstTile(st, g, value) ==
    LET possible_tiles == {p \in GroupSet(g) : value \in st.tiles[p].candidates}
    IN IF Cardinality(possible_tiles) = 1
       THEN [tiles |-> [p \in Pos |->
                          IF p = groups[g][1]
                          THEN SetValue(value)
                          ELSE st.tiles[p]],
             progress |-> TRUE]
       ELSE st

\* Board.hidden_single, one leftover value of one group: when exactly one
\* tile of the group still admits the value, that tile is set to it.
HiddenValue(st, g, value) ==
    LET possible_tiles == {p \in GroupSet(g) : value \in st.tiles[p].candidates}
    IN IF Cardinality(possible_tiles) = 1
       THEN [tiles |-> [p \in Pos |->
                          IF p \in possible_tiles
                          THEN SetValue(value)
                          ELSE st.tiles[p]],
             progress |-> TRUE]
       ELSE st

\* "for value in leftovers" iterates a Python set of strings, whose order
\* depends on the interpreter's string hashing: every order is an outcome.
RECURSIVE HiddenValues(_, _, _)
HiddenValues(st, g, leftovers) ==
    IF leftovers = {}
    THEN {st}
    ELSE UNION {UNION {HiddenValues(x, g, leftovers \ {value}) :
                          x \in {y \in {HiddenValue(st, g, value)} : y = y}} :
                   value \in leftovers}

\* One group of Board.hidden_single: leftovers is fixed before the loop.
HiddenGroup(st, g) ==
    HiddenValues(st, g, CHOICES \ {st.tiles[p].value : p \in GroupSet(g)})

RECURSIVE HiddenFrom(_, _)
HiddenFrom(sts, g) ==
    IF g > 3 * NROWS
    THEN sts
    ELSE UNION {HiddenFrom(x, g + 1) :
                   x \in {y \in {UNION {HiddenGroup(st, g) : st \in sts}} : y = y}}

\* Board.hidden_single: the possible results (tiles and returned flag).
HiddenSingle(t) == HiddenFrom({[tiles |-> t, progress |-> FALSE]}, 1)

\* One iteration of the while loop of Board.propagate:
\* progress = naked_single(); hidden_single().
PropagatePass(t) ==
    LET ns == NakedSingle(t) IN
    {[tiles |-> hs.tiles, progress |-> ns.progress] : hs \in HiddenSingle(ns.tiles)}

\* Board.min_choice_tile: groups and tiles are scanned in order and a tile
\* replaces the current minimum only when it has strictly fewer candidates.
Scan == [k \in 1..(3 * NROWS * NROWS) |->
            groups[((k - 1) \div NROWS) + 1][((k - 1) % NROWS) + 1]]

MinChoiceTile(t) ==
    LET unknown == {k \in DOMAIN Scan : t[Scan[k]].value = UNKNOWN}
        best == CHOOSE k \in unknown :
                    \A j \in unknown :
                        \/ Cardinality(t[Scan[k]].candidates)
                               < Cardinality(t[Scan[j]].candidates)
                        \/ /\ Cardinality(t[Scan[k]].candidates)
                                  = Cardinality(t[Scan[j]].candidates)
                           /\ k <= j
    IN Scan[best]

(***************************************************************************)
(* Inputs: the boards loaded with set_tiles.  A board is NROWS rows of     *)
(* NCOLS characters; besides the symbols and UNKNOWN a row may hold a      *)
(* character that is neither (NonSymbol); set_value stores it as UNKNOWN.  *)
(***************************************************************************)
EditRows == 2

NonSymbol == NROWS + 1

BaseBoards ==
    { << <<1, 2, 3, 4>>, <<3, 4, 1, 2>>, <<2, 1, 4, 3>>, <<4, 3, 2, 1>> >>,
      << <<0, 0, 0, 1>>, <<0, 2, 0, 0>>, <<0, 0, 2, 0>>, <<0, 0, 0, 0>> >>,
      << <<0, 0, 0, 1>>, <<0, 0, 0, 0>>, <<0, 0, 4, 0>>, <<0, 0, 4, 0>> >>,
      << <<1, 0, 0, 4>>, <<0, 4, 0, 0>>, <<0, 0, 4, 0>>, <<4, 0, 0, 1>> >>,
      << <<0, 0, 0, 0>>, <<0, 1, 0, 0>>, <<0, 0, 1, 0>>, <<4, 0, 0, 0>> >> }

InputChars == {UNKNOWN} \cup CHOICES \cup {NonSymbol}

\* The base boards, and every board that differs from one of them in one
\* character of the first EditRows rows.
Boards ==
    BaseBoards \cup
    {[b EXCEPT ![r][c] = ch] :
        b \in BaseBoards, r \in 1..EditRows, c \in 1..NCOLS, ch \in InputChars}

\* The tiles after set_tiles(b), for every input board b.
LoadedTiles == {SetTiles(b) : b \in Boards}

(***************************************************************************)
(* State                                                                   *)
(***************************************************************************)
VARIABLES
    tiles,      \* Board.tiles: position -> [value, candidates]
    pc,         \* "idle", or the position inside propagate() / solve()
    op,         \* the public operation in progress: "none", "propagate", "solve"
    stack,      \* the activation records of solve(), innermost last
    last,       \* "restore", "propagate", "solve": the call that has just returned
    result,     \* the value returned by the solve() call that returned last
    returned,   \* history of the solve() call that returned last: the board at
                \* its entry and after its propagate(), whether it guessed
    start       \* as_list() of the board when the top-level solve() was called

vars == <<tiles, pc, op, stack, last, result, returned, start>>

NoList == <<>>
NoTile == <<>>

Frame(t) ==
    [entry |-> AsList(t), post |-> NoList, saved_state |-> NoList,
     tile_to_guess |-> NoTile, candidates |-> {}, untried |-> {}]

NoReturn == [entry |-> NoList, post |-> NoList, searched |-> FALSE, depth |-> 0]

\* result, returned and start describe the solve() call in progress or just
\* returned; the next public operation forgets them.
Forget ==
    /\ result' = FALSE
    /\ returned' = NoReturn
    /\ start' = NoList

Top == stack[Len(stack)]
Pop == SubSeq(stack, 1, Len(stack) - 1)
SetTop(f) == [stack EXCEPT ![Len(stack)] = f]

Init ==
    /\ tiles = EmptyTiles
    /\ pc = "idle"
    /\ op = "none"
    /\ stack = <<>>
    /\ last = "none"
    /\ result = FALSE
    /\ returned = NoReturn
    /\ start = NoList

(***************************************************************************)
(* Public operations called on an idle board                               *)
(***************************************************************************)
SetTilesOp ==
    /\ pc = "idle"
    /\ tiles' \in LoadedTiles
    /\ last' = "none"
    /\ Forget
    /\ UNCHANGED <<pc, op, stack>>

\* set_tiles(as_list()): the restore that solve() uses, called on its own.
RestoreOp ==
    /\ pc = "idle"
    /\ tiles' = SetTiles(AsList(tiles))
    /\ last' = "restore"
    /\ Forget
    /\ UNCHANGED <<pc, op, stack>>

NakedSingleOp ==
    /\ pc = "idle"
    /\ tiles' = NakedSingle(tiles).tiles
    /\ last' = "none"
    /\ Forget
    /\ UNCHANGED <<pc, op, stack>>

HiddenSingleOp ==
    /\ pc = "idle"
    /\ \E hs \in HiddenSingle(tiles) : tiles' = hs.tiles
    /\ last' = "none"
    /\ Forget
    /\ UNCHANGED <<pc, op, stack>>

CallPropagate ==
    /\ pc = "idle"
    /\ pc' = "propagate"
    /\ op' = "propagate"
    /\ last' = "none"
    /\ Forget
    /\ UNCHANGED <<tiles, stack>>

CallSolve ==
    /\ pc = "idle"
    /\ pc' = "propagate"
    /\ op' = "solve"
    /\ stack' = <<Frame(tiles)>>
    /\ start' = AsList(tiles)
    /\ last' = "none"
    /\ result' = FALSE
    /\ returned' = NoReturn
    /\ UNCHANGED tiles

(***************************************************************************)
(* propagate(): one action per iteration of its while loop                 *)
(***************************************************************************)
PropagateStep ==
    /\ pc = "propagate"
    /\ \E out \in PropagatePass(tiles) :
        /\ tiles' = out.tiles
        /\ IF out.progress
           THEN UNCHANGED <<pc, op, stack, last>>
           ELSE IF op = "solve"
                THEN /\ pc' = "test"
                     /\ stack' = SetTop([Top EXCEPT !.post = AsList(out.tiles)])
                     /\ UNCHANGED <<op, last>>
                ELSE /\ pc' = "idle"
                     /\ op' = "none"
                     /\ last' = "propagate"
                     /\ UNCHANGED stack
    /\ UNCHANGED <<result, returned, start>>

(***************************************************************************)
(* solve()                                                                 *)
(***************************************************************************)
\* A return of the innermost solve() call with the given value.
Return(value) ==
    /\ result' = value
    /\ returned' = [entry |-> Top.entry, post |-> Top.post,
                    searched |-> Top.saved_state /= NoList, depth |-> Len(stack)]
    /\ stack' = Pop
    /\ IF Len(stack) = 1
       THEN pc' = "idle" /\ op' = "none" /\ last' = "solve"
       ELSE pc' = "ret" /\ UNCHANGED <<op, last>>

\* if self.is_complete(): return True
SolveComplete ==
    /\ pc = "test"
    /\ IsComplete(tiles)
    /\ Return(TRUE)
    /\ UNCHANGED <<tiles, start>>

\* elif not self.is_consistent(): return False
SolveInconsistent ==
    /\ pc = "test"
    /\ ~IsComplete(tiles)
    /\ ~IsConsistent(tiles)
    /\ Return(FALSE)
    /\ UNCHANGED <<tiles, start>>

\* else: saved_state = self.as_list(); tile_to_guess = self.min_choice_tile();
\* the for loop starts on the candidates the tile has now.  candidates is
\* the set object the loop iterates: set_value and remove_candidates bind
\* the tile's attribute to a new set and never change this one, so the loop
\* goes through it whatever happens to the tile in the meantime.
SolveGuess ==
    /\ pc = "test"
    /\ ~IsComplete(tiles)
    /\ IsConsistent(tiles)
    /\ stack' = SetTop([Top EXCEPT
                          !.saved_state = AsList(tiles),
                          !.tile_to_guess = MinChoiceTile(tiles),
                          !.candidates = tiles[MinChoiceTile(tiles)].candidates,
                          !.untried = tiles[MinChoiceTile(tiles)].candidates])
    /\ pc' = "loop"
    /\ UNCHANGED <<tiles, op, last, result, returned, start>>

\* for value in tile_to_guess.candidates: tile_to_guess.set_value(value);
\* self.solve() -- the next value is any value not yet tried.
LoopNext ==
    /\ pc = "loop"
    /\ \E value \in Top.untried :
        /\ tiles' = [p \in Pos |->
                     IF p = Top.tile_to_guess THEN SetValue(value) ELSE tiles[p]]
        /\ stack' = Append(SetTop([Top EXCEPT !.untried = @ \ {value}]),
                           Frame(tiles'))
    /\ pc' = "propagate"
    /\ UNCHANGED <<op, last, result, returned, start>>

\* the for loop is exhausted: return False
LoopExhausted ==
    /\ pc = "loop"
    /\ Top.untried = {}
    /\ Return(FALSE)
    /\ UNCHANGED <<tiles, start>>

\* if self.solve(): return True
CallSucceeded ==
    /\ pc = "ret"
    /\ result = TRUE
    /\ Return(TRUE)
    /\ UNCHANGED <<tiles, start>>

\* Mutant of CallFailed: the board is left as the failed trial left it.
CallFailedNoRestore ==
    /\ pc = "ret"
    /\ result = FALSE
    /\ pc' = "loop"
    /\ returned' = NoReturn
    /\ UNCHANGED <<tiles, op, stack, last, result, start>>

\* else: self.set_tiles(saved_state)
CallFailed ==
    /\ pc = "ret"
    /\ result = FALSE
    /\ tiles' = SetTiles(Top.saved_state)
    /\ pc' = "loop"
    /\ returned' = NoReturn
    /\ UNCHANGED <<op, stack, last, result, start>>

Step ==
    \/ PropagateStep
    \/ SolveComplete
    \/ SolveInconsistent
    \/ SolveGuess
    \/ LoopNext
    \/ LoopExhausted
    \/ CallSucceeded
    \/ CallFailed

Next ==
    \/ SetTilesOp
    \/ RestoreOp
    \/ NakedSingleOp
    \/ HiddenSingleOp
    \/ CallPropagate
    \/ CallSolve
    \/ Step

Spec == Init /\ [][Next]_vars

\* A board that is constructed, left empty or loaded once with a base board,
\* and then worked on: behaviours of Spec between two loads.  A call in
\* progress is not abandoned: the interpreter runs propagate() and solve()
\* to their return.
LoadedInit ==
    /\ tiles \in {SetTiles(b) : b \in BaseBoards} \cup {EmptyTiles}
    /\ pc = "idle"
    /\ op = "none"
    /\ stack = <<>>
    /\ last = "none"
    /\ result = FALSE
    /\ returned = NoReturn
    /\ start = NoList

LoadedNext ==
    \/ RestoreOp
    \/ NakedSingleOp
    \/ HiddenSingleOp
    \/ CallPropagate
    \/ CallSolve
    \/ Step

LiveSpec == LoadedInit /\ [][LoadedNext]_vars /\ WF_vars(Step)

(***************************************************************************)
(* Properties                                                              *)
(***************************************************************************)

\* The rows of a full board: every arrangement of the symbols.
RowPerms ==
    {f \in [1..NCOLS -> CHOICES] : \A i, j \in 1..NCOLS : i /= j => f[i] /= f[j]}

\* Row number r (a row of symbols) may follow the rows b of a valid board:
\* no symbol of it is already in its column, nor in its block.
Fits(b, row) ==
    \A c \in 1..NCOLS :
        \A i \in 1..Len(b) :
            /\ b[i][c] /= row[c]
            /\ (i - 1) \div ROOT = Len(b) \div ROOT
                 => \A d \in 1..NCOLS :
                        (d - 1) \div ROOT = (c - 1) \div ROOT => b[i][d] /= row[c]

RECURSIVE Extended(_)
Extended(bs) ==
    IF \A b \in bs : Len(b) = NROWS
    THEN bs
    ELSE Extended({Append(x[1], x[2]) :
                     x \in {y \in bs \X RowPerms : Fits(y[1], y[2])}})

\* The valid full boards: every row, column and block holds each symbol
\* exactly once.
Solutions == Extended({<<>>})

\* The board of rows b has a valid completion.
HasCompletion(b) ==
    \E s \in Solutions :
        \A r \in 1..NROWS, c \in 1..NCOLS : b[r][c] \in CHOICES => s[r][c] = b[r][c]

\* No row, column or block of the board of rows b holds a symbol twice.
NoDuplicate(b) ==
    /\ \A r \in 1..NROWS : \A i, j \in 1..NCOLS :
          (i < j /\ b[r][i] \in CHOICES) => b[r][i] /= b[r][j]
    /\ \A c \in 1..NCOLS : \A i, j \in 1..NROWS :
          (i < j /\ b[i][c] \in CHOICES) => b[i][c] /= b[j][c]
    /\ \A k \in 1..NROWS : \A v \in CHOICES :
          Cardinality({i \in 1..NROWS :
              b[ROOT * ((k - 1) \div ROOT) + ((i - 1) \div ROOT) + 1]
               [ROOT * ((k - 1) % ROOT) + ((i - 1) % ROOT) + 1] = v}) <= 1

NoUnknown(b) == \A r \in 1..NROWS, c \in 1..NCOLS : b[r][c] \in CHOICES

\* A solve() call has just returned (to its caller, or to the idle board).
JustReturned == pc \in {"idle", "ret"} /\ returned.depth > 0

\* The top-level solve() call has just returned.
SolveReturned == pc = "idle" /\ last = "solve"

\* C1 -- Soundness: whenever a solve() call returns True, no cell of the
\* grid is UNKNOWN and no row, column or block holds a symbol twice.
C1_Soundness ==
    (JustReturned /\ result = TRUE)
        => NoUnknown(AsList(tiles)) /\ NoDuplicate(AsList(tiles))

\* C2 -- Completeness: when the top-level solve() was called on a board
\* with a valid completion, it returns True, whatever the order in which
\* the candidates were tried.
C2_Completeness ==
    (SolveReturned /\ HasCompletion(start)) => result = TRUE

C2_Witness ==
    /\ SolveReturned
    /\ HasCompletion(start)
    /\ returned.searched
    /\ result = TRUE

\* C3 -- Unsat detection: when the top-level solve() was called on a board
\* with no valid completion, it returns False.
C3_UnsatDetection ==
    (SolveReturned /\ ~HasCompletion(start)) => result = FALSE

\* C4 -- Termination: a propagate() or solve() call in progress eventually
\* returns (the board is idle again).
C4_Termination == (pc /= "idle") ~> (pc = "idle")

C4_Witness ==
    /\ SolveReturned
    /\ returned.searched
    /\ result = FALSE

\* C5 (as claimed) -- Restore: whenever a solve() call returns False, every
\* cell has the value it had when that call began.
C5_RestoredToEntry ==
    (JustReturned /\ result = FALSE) => AsList(tiles) = returned.entry

\* C5 (amended) -- Restore: whenever a solve() call returns False, every
\* cell has the value it had when that call's propagate() finished.
C5_RestoredToSnapshot ==
    (JustReturned /\ result = FALSE) => AsList(tiles) = returned.post

C5_Witness ==
    /\ JustReturned
    /\ result = FALSE
    /\ returned.searched
    /\ returned.post /= returned.entry

\* C6 -- Idempotence: the grid that propagate() returns is a fixpoint of
\* propagate(): one more pass of its loop changes no value and no
\* candidate set.
C6_PropagateIdempotent ==
    (pc = "idle" /\ last = "propagate")
        => \A out \in PropagatePass(tiles) : out.tiles = tiles

\* C7 (as claimed) -- Snapshot round trip: on every idle board
\* set_tiles(as_list()) changes no value and no candidate set.
C7_RoundTripNoOp ==
    pc = "idle" => SetTiles(AsList(tiles)) = tiles

\* C7 (amended) -- Snapshot round trip: on every idle board
\* set_tiles(as_list()) changes no value and no candidate set of a known
\* cell; every UNKNOWN cell gets all of CHOICES as candidates.
C7_RoundTripValues ==
    pc = "idle" =>
        \A p \in Pos :
            /\ SetTiles(AsList(tiles))[p].value = tiles[p].value
            /\ tiles[p].value \in CHOICES
                 => SetTiles(AsList(tiles))[p].candidates = tiles[p].candidates
            /\ tiles[p].value = UNKNOWN
                 => SetTiles(AsList(tiles))[p].candidates = CHOICES

C7_Witness ==
    /\ pc = "idle"
    /\ \E p \in Pos : tiles[p].value \in CHOICES
    /\ \E p \in Pos : tiles[p].value = UNKNOWN /\ tiles[p].candidates /= CHOICES

\* C8 -- Cell invariant: in every state a cell with a symbol as value has
\* exactly that symbol as candidates, and an UNKNOWN cell has candidates
\* within CHOICES.
C8_CellInvariant ==
    \A p \in Pos :
        /\ tiles[p].value \in CHOICES \cup {UNKNOWN}
        /\ tiles[p].value \in CHOICES => tiles[p].candidates = {tiles[p].value}
        /\ tiles[p].value = UNKNOWN => tiles[p].candidates \subseteq CHOICES

C8_Witness ==
    /\ pc = "idle"
    /\ last = "propagate"
    /\ \E p \in Pos : tiles[p].value \in CHOICES
    /\ \E p \in Pos : tiles[p].value = UNKNOWN /\ Cardinality(tiles[p].candidates) = 2

\* C9 -- Soundness on well-formed input: when the top-level solve() was
\* called on a board without duplicates and returns True, the grid is
\* complete and without duplicates.
C9_SoundOnConsistent ==
    (SolveReturned /\ NoDuplicate(start) /\ result = TRUE)
        => NoUnknown(AsList(tiles)) /\ NoDuplicate(AsList(tiles))

\* C10 -- Givens are preserved: from the call of the top-level solve() to
\* its return, every cell that held a symbol at the call holds that symbol.
C10_GivensPreserved ==
    (op = "solve" \/ SolveReturned) =>
        \A r \in 1..NROWS, c \in 1..NCOLS :
            start[r][c] \in CHOICES => tiles[<<r - 1, c - 1>>].value = start[r][c]

C10_Witness ==
    /\ SolveReturned
    /\ returned.searched
    /\ \E r \in 1..NROWS, c \in 1..NCOLS : start[r][c] \in CHOICES
    /\ AsList(tiles) /= start

====
